---- MODULE Spec2Model ----
(***************************************************************************)
(* A model of inat.photodownloader.py: the rate gate, the observation      *)
(* lister, the per-photo resolution pipeline (scrape, resolve, download,   *)
(* direct fallback), the image fetcher and the CSV writer.                 *)
(*                                                                         *)
(* Strings are sequences of pieces.  A piece is a one-character string or  *)
(* a longer chunk that contains no ';', so joining on ';' and splitting on *)
(* ';' are computed, not assumed to be inverse.                            *)
(*                                                                         *)
(* Specifications:                                                         *)
(*   SpecGate      rate_limited_request under a ticking clock              *)
(*   SpecStart     the checks of the command line, and the listing         *)
(*   SpecList      get_observation_ids against a paged API                 *)
(*   SpecListFair  the same, the loop not stopped from outside             *)
(*   SpecDirect    direct_download_by_photo_id against a storage backend   *)
(*   SpecDownload  download_image on one response                         *)
(*   SpecCsv       the main run without --download: listing, the           *)
(*                 per-observation loop and the CSV                        *)
(*   Spec          the main run with --download: the per-photo pipeline    *)
(*                 too                                                     *)
(***************************************************************************)
EXTENDS Integers, Sequences, FiniteSets, TLC

VARIABLES
    pc,                 \* position of the (single-threaded) program
    args,               \* parsed command line: limit, download, add_photo_urls
    now,                \* time.time(), in ticks
    last_request_time,  \* global last_request_time
    permits,            \* history: the timestamps recorded by the gate, in order
    sent,               \* history: how many requests the session sent, and the last one's kind
    api_pages,          \* environment: the result pages the list endpoint holds
    page,               \* get_observation_ids: page
    ids,                \* get_observation_ids: ids
    list_end,           \* history: how get_observation_ids returned
    pages_requested,    \* history: the page numbers requested, in order
    exit_status,        \* the process's exit status, "running" until it exits
    files,              \* the image directory: path -> size in bytes
    dl,                 \* history: the call of download_image under SpecDownload
    obs_ids_list,       \* main: the ids get_observation_ids returned
    i,                  \* main: position in obs_ids_list (enumerate from 1)
    photo_details_list, \* main: what get_photo_ids returned for observation i
    j,                  \* main: position in photo_details_list
    observation_filenames,            \* main: the row's filenames so far
    observation_photo_page_urls,      \* main: the row's photo page URLs so far
    observation_original_image_links, \* main: the row's original links so far
    rows,               \* the CSV: the rows written, in order
    total_photos_processed,           \* main: counter
    successfully_downloaded_photos,   \* main: counter
    ph,                 \* the photo in work: locals of the loop body and its history
    truth,              \* history: what the scraper found for each photo of observation i
    expected,           \* history: per finished observation with a filename, what was scraped
    visited,            \* history: the observations whose processing began, in order
    skipped,            \* history: the observations left through an exception handler
    argv,               \* command line as validated: username given, output filename
    stderr,             \* history: what the start of the script put out last as its error
    interrupted         \* history: a KeyboardInterrupt was raised

gateVars == <<now, last_request_time, permits, sent>>
listVars == <<api_pages, page, ids, list_end, pages_requested>>
dlVars == <<files, dl>>
obsVars == <<photo_details_list, j, observation_filenames, observation_photo_page_urls,
             observation_original_image_links, ph, truth>>
runVars == <<obs_ids_list, i, rows, total_photos_processed,
             successfully_downloaded_photos, expected, visited, skipped>>
cmdVars == <<args, argv, stderr, interrupted>>
mainVars == <<obsVars, runVars>>
vars == <<pc, cmdVars, exit_status, gateVars, listVars, dlVars, mainVars>>

(***************************************************************************)
(* Bounds of the model.                                                    *)
(***************************************************************************)
MaxRequests == 5      \* requests issued under SpecGate
MaxIdle == 3          \* ticks of processing time between two requests
MaxOversleep == 1     \* ticks a sleep may last beyond the requested delay
MaxPages == 2         \* non-empty pages the list endpoint holds
MaxPerPage == 2       \* ids on one page (the code asks for 200 per page)
MaxLimit == 4         \* largest --limit tried
MaxBody == 2          \* bytes in a response body, and largest Content-Length
MaxObs == 2           \* observations the API holds under Spec
MaxPhotos == 2        \* photo objects of one observation

(***************************************************************************)
(* Helpers.                                                                *)
(***************************************************************************)
Max(a, b) == IF a >= b THEN a ELSE b

Min(a, b) == IF a <= b THEN a ELSE b

Take(s, n) == SubSeq(s, 1, Min(n, Len(s)))

RECURSIVE Concat(_)
Concat(ss) == IF ss = <<>> THEN <<>> ELSE Head(ss) \o Concat(Tail(ss))

\* An optional value is None or Some(v); Value(o) is the v of Some(v)
None == <<>>

Some(v) == <<v>>

Value(o) == o[1]

(***************************************************************************)
(* The rate gate.  Time is counted in ticks of half a second.              *)
(***************************************************************************)
\* 1.0 second (line 163), in ticks
MinInterval == 2

\* the kinds of outbound request, by call site
RequestKinds == {"list", "detail", "photo_page", "original_page", "image", "direct"}

\* a gate that measures the interval one tick short
GateDelayShort(t, last) == Max(0, MinInterval - 1 - (t - last))

\* delay = max(0, 1.0 - (now - last_request_time))
GateDelay(t, last) == Max(0, MinInterval - (t - last))

\* rate_limited_request: sleep for the delay (a sleep lasts at least that long),
\* record the time after the sleep, then hand the request to the session.
rate_limited_request(kind, over) ==
    LET delay == GateDelay(now, last_request_time)
        after == IF delay > 0 THEN now + delay + over ELSE now
    IN  /\ now' = after
        /\ last_request_time' = after
        /\ permits' = Append(permits, after)
        /\ sent' = [n |-> sent.n + 1, kind |-> kind]

\* processing between two requests takes time
Tick ==
    /\ pc = "gate"
    /\ now - last_request_time < MaxIdle
    /\ now' = now + 1
    /\ UNCHANGED <<pc, cmdVars, exit_status, last_request_time, permits, sent, listVars, dlVars, mainVars>>

GateRequest(kind) ==
    /\ pc = "gate"
    /\ Len(permits) < MaxRequests
    /\ \E over \in 0..MaxOversleep : rate_limited_request(kind, over)
    /\ UNCHANGED <<pc, cmdVars, exit_status, listVars, dlVars, mainVars>>

\* the call sites of rate_limited_request
RequestObservationList == GateRequest("list")

RequestObservationDetail == GateRequest("detail")

RequestPhotoPage == GateRequest("photo_page")

RequestOriginalPage == GateRequest("original_page")

RequestImage == GateRequest("image")

RequestDirect == GateRequest("direct")

(***************************************************************************)
(* The start of the script, lines 70-92.                                   *)
(***************************************************************************)
\* the line of "def log_message": the name is bound when this line has run
LogMessageDefinedAt == 122

\* a module-level name is bound at a line if its definition stands above it
NameBound(defined_at, line) == defined_at < line

\* log_message(message, level=LOG_LEVEL_ERROR) called at a line of the module:
\* the message goes to stderr, or the call raises NameError, which nothing
\* catches, so that the interpreter prints a traceback and exits with status 1
LogErrorAt(line, message) ==
    IF NameBound(LogMessageDefinedAt, line)
    THEN [raised |-> FALSE, stderr |-> message]
    ELSE [raised |-> TRUE, stderr |-> "NameError: name 'log_message' is not defined"]

\* --output as given: absent, or a name
OutputNames ==
    {None, Some(<<>>), Some(<<"out", ".csv">>), Some(<<"OUT", ".CSV">>),
     Some(<<"out", ".txt">>), Some(<<"out", ".csv", ".bak">>)}

\* args.output.lower().endswith('.csv')
EndsWithCsv(name) == name # <<>> /\ name[Len(name)] \in {".csv", ".CSV"}

\* "if args.output": None and "" are false
OutputGiven(output) == output # None /\ Value(output) # <<>>

\* the command lines that pass lines 81-90
ValidArgv(a) == a.username /\ (OutputGiven(a.output) => EndsWithCsv(Value(a.output)))

\* lines 81-92: the checks of --username and --output
Validate ==
    /\ pc = "start"
    /\ IF ~argv.username
       THEN /\ stderr' = LogErrorAt(82, "Error: --username is required.").stderr
            /\ exit_status' = "1"
            /\ pc' = "exit"
       ELSE IF OutputGiven(argv.output) /\ ~EndsWithCsv(Value(argv.output))
       THEN /\ stderr' = LogErrorAt(89, "Error: Output filename must end with .csv").stderr
            /\ exit_status' = "1"
            /\ pc' = "exit"
       ELSE /\ pc' = "list"
            /\ UNCHANGED <<stderr, exit_status>>
    /\ UNCHANGED <<args, argv, interrupted, gateVars, listVars, dlVars, mainVars>>

(***************************************************************************)
(* get_observation_ids.                                                    *)
(***************************************************************************)
\* the pages of an API that holds the ids first, first+1, ..., cut into pages of
\* the given sizes
RECURSIVE PagesOfSizes(_, _)
PagesOfSizes(sizes, first) ==
    IF sizes = <<>> THEN <<>>
    ELSE <<[k \in 1..Head(sizes) |-> first + k - 1]>>
         \o PagesOfSizes(Tail(sizes), first + Head(sizes))

\* every run of at most m non-empty pages; every later page is empty
ApiPagesUpTo(m) ==
    { PagesOfSizes(sizes, 1) : sizes \in UNION { [1..n -> 1..MaxPerPage] : n \in 0..m } }

\* an endpoint that answers the request for a page with the page after it
ResultsOfPageShifted(p) == IF p + 1 <= Len(api_pages) THEN api_pages[p + 1] ELSE <<>>

\* r.json().get("results", []) for the page asked
ResultsOfPage(p) == IF p <= Len(api_pages) THEN api_pages[p] ELSE <<>>

\* Python's truth value of limit: None and 0 are false
Truthy(limit) == limit # None /\ Value(limit) # 0

\* "if limit and len(ids) >= limit"
LimitReached(acc, limit) == Truthy(limit) /\ Len(acc) >= Value(limit)

\* the for loop over one page's results: append, and return as soon as the limit
\* is reached
RECURSIVE AppendResults(_, _, _)
AppendResults(acc, results, limit) ==
    IF results = <<>> THEN [ids |-> acc, returned |-> FALSE]
    ELSE LET more == Append(acc, Head(results))
         IN  IF LimitReached(more, limit)
             THEN [ids |-> more, returned |-> TRUE]
             ELSE AppendResults(more, Tail(results), limit)

\* what the request for a page can come to: a page of results, a network failure
\* (a RequestException), or a body that is not JSON.  r.json() raises
\* requests.exceptions.JSONDecodeError (a RequestException) with requests >= 2.27
\* and json.JSONDecodeError (no RequestException) with an older requests.
ListOutcomes == {"ok", "network_error", "decode_error_requests", "decode_error_json"}

\* which handler of get_observation_ids takes the exception: the module never
\* imports json, so evaluating "except json.JSONDecodeError" raises NameError
ListHandler(outcome) ==
    CASE outcome = "network_error" -> "return_ids"
      [] outcome = "decode_error_requests" -> "return_ids"
      [] outcome = "decode_error_json" -> "name_error"
      [] OTHER -> "none"

\* one turn of the while loop of get_observation_ids
ListPage ==
    /\ pc = "list"
    /\ \E outcome \in ListOutcomes :
         /\ pages_requested' = Append(pages_requested, page)
         /\ IF outcome = "ok"
            THEN LET results == ResultsOfPage(page)
                     r == AppendResults(ids, results, args.limit)
                 IN  /\ ids' = r.ids
                     /\ IF r.returned
                        THEN /\ list_end' = "limit"
                             /\ pc' = "listed"
                             /\ page' = page
                        ELSE IF results = <<>> \/ LimitReached(r.ids, args.limit)
                        THEN /\ list_end' = "empty"
                             /\ pc' = "listed"
                             /\ page' = page
                        ELSE /\ list_end' = list_end
                             /\ pc' = "list"
                             /\ page' = page + 1
                     /\ exit_status' = exit_status
            ELSE IF ListHandler(outcome) = "return_ids"
            THEN /\ list_end' = "failed"
                 /\ pc' = "listed"
                 /\ UNCHANGED <<ids, page, exit_status>>
            ELSE \* NameError leaves get_observation_ids and reaches the
                 \* top-level "except Exception": sys.exit(1)
                 /\ list_end' = "raised"
                 /\ pc' = "exit"
                 /\ exit_status' = "1"
                 /\ UNCHANGED <<ids, page>>
    /\ UNCHANGED <<cmdVars, api_pages, gateVars, dlVars, mainVars>>

(***************************************************************************)
(* download_image.                                                         *)
(***************************************************************************)
\* MIME_TYPE_MAP, lines 378-386: content type -> extension, None when absent
MIME_TYPE_MAP(ct) ==
    CASE ct = <<"image/", "jpeg">> -> Some(<<".", "jpg">>)
      [] ct = <<"image/", "png">> -> Some(<<".", "png">>)
      [] ct = <<"image/", "gif">> -> Some(<<".", "gif">>)
      [] ct = <<"image/", "webp">> -> Some(<<".", "webp">>)
      [] ct = <<"image/", "tiff">> -> Some(<<".", "tif">>)
      [] ct = <<"image/", "bmp">> -> Some(<<".", "bmp">>)
      [] ct = <<"image/", "svg+xml">> -> Some(<<".", "svg">>)
      [] OTHER -> None

\* str.lower() of a piece
Lower(p) ==
    CASE p = "IMAGE/" -> "image/"
      [] p = "JPEG" -> "jpeg"
      [] OTHER -> p

\* the pieces before the first ';': split(';')[0]
RECURSIVE BeforeSemicolon(_)
BeforeSemicolon(h) ==
    IF h = <<>> \/ Head(h) = ";" THEN <<>>
    ELSE <<Head(h)>> \o BeforeSemicolon(Tail(h))

\* str.strip(): blanks off both ends
RECURSIVE StripLeft(_)
StripLeft(h) == IF h # <<>> /\ Head(h) = " " THEN StripLeft(Tail(h)) ELSE h

RECURSIVE StripRight(_)
StripRight(h) ==
    IF h # <<>> /\ h[Len(h)] = " " THEN StripRight(SubSeq(h, 1, Len(h) - 1)) ELSE h

Strip(h) == StripRight(StripLeft(h))

\* r.headers.get('content-type', '').split(';')[0].strip().lower()
NormalizeContentType(header) ==
    LET raw == IF header = None THEN <<>> ELSE Value(header)
        cut == Strip(BeforeSemicolon(raw))
    IN  [k \in 1..Len(cut) |-> Lower(cut[k])]

\* content_type.startswith('image/')
StartsWithImage(ct) == ct # <<>> /\ ct[1] = "image/"

\* content_type.split('/')[-1]: what follows the last '/'
SubtypePart(ct) == IF Len(ct) >= 2 THEN ct[Len(ct)] ELSE ""

\* the subtypes of the model that are at most 4 characters long and alphanumeric
ShortAlnumSubtypes == {"jpeg", "png", "gif", "webp", "tiff", "bmp", "heic", "html", "xml"}

\* line 417: non-empty, len <= 4, isalnum, and not html, xml or plain
DerivableSubtype(sub) ==
    /\ sub # ""
    /\ sub \in ShortAlnumSubtypes
    /\ sub \notin {"html", "xml", "plain"}

\* os.path.splitext: the extension starts at the last dot, unless only dots
\* come before it
SplitExt(fname) ==
    LET dots == { k \in 1..Len(fname) : fname[k] = "." }
        last == CHOOSE k \in dots : \A m \in dots : m <= k
    IN  IF dots = {} \/ \A m \in 1..(last - 1) : fname[m] = "."
        THEN [base |-> fname, ext |-> <<>>]
        ELSE [base |-> SubSeq(fname, 1, last - 1),
              ext |-> SubSeq(fname, last, Len(fname))]

\* the characters of the model outside [\w\-]
NonWordPieces == {";", ".", " "}

\* re.sub(r'[^\w\-]', '_', base_fname)
Sanitize(base) ==
    [k \in 1..Len(base) |-> IF base[k] \in NonWordPieces THEN "_" ELSE base[k]]

\* an image fetcher that falls back to the original extension for every type
ExtensionForAnyType(content_type, orig_ext) ==
    IF MIME_TYPE_MAP(content_type) # None
    THEN [ok |-> TRUE, ext |-> Value(MIME_TYPE_MAP(content_type))]
    ELSE [ok |-> TRUE, ext |-> IF orig_ext # <<>> THEN orig_ext ELSE <<".", "jpg">>]

\* lines 410-434: the extension for the declared content type, or the verdict
\* that the content is no image
ExtensionFor(content_type, orig_ext) ==
    LET fallback == IF orig_ext # <<>> THEN orig_ext ELSE <<".", "jpg">>
    IN  IF MIME_TYPE_MAP(content_type) # None
        THEN [ok |-> TRUE, ext |-> Value(MIME_TYPE_MAP(content_type))]
        ELSE IF StartsWithImage(content_type)
        THEN IF DerivableSubtype(SubtypePart(content_type))
             THEN [ok |-> TRUE, ext |-> <<".", SubtypePart(content_type)>>]
             ELSE [ok |-> TRUE, ext |-> fallback]
        ELSE IF content_type = <<"application/", "octet-stream">> \/ content_type = <<>>
        THEN [ok |-> TRUE, ext |-> fallback]
        ELSE [ok |-> FALSE, ext |-> <<>>]

\* final_fname = f"{obs_id_str}_{safe_base_fname}{ext}"
OutPath(obs_id_str, fname, ext) ==
    <<obs_id_str, "_">> \o Sanitize(SplitExt(fname).base) \o ext

\* the Content-Length header: absent, an integer, or text int() rejects
Lengths ==
    {[kind |-> "absent", n |-> 0], [kind |-> "bad", n |-> 0]}
    \cup { [kind |-> "int", n |-> n] : n \in 0..MaxBody }

\* int(r.headers.get('content-length', 0)); "bad" raises ValueError
ContentSize(length) == IF length.kind = "int" THEN length.n ELSE 0

\* the Content-Type headers tried
ContentTypeHeaders ==
    { None,
      Some(<<>>),
      Some(<<"image/", "jpeg">>),
      Some(<<"IMAGE/", "JPEG">>),
      Some(<<"image/", "gif", ";", " ", "charset=binary">>),
      Some(<<"image/", "heic">>),
      Some(<<"image/", "x-icon">>),
      Some(<<"image/", "html">>),
      Some(<<"application/", "octet-stream">>),
      Some(<<"text/", "html", ";", " ", "charset=utf-8">>) }

\* what a GET of an image URL can come to: no usable response (no answer, or a
\* status raise_for_status rejects), or a 2xx response.  open_error: open()
\* raises IOError.  body bytes arrive, then the stream ends ("end") or breaks
\* ("broken": a RequestException, which is an IOError).
NoResponse ==
    [status |-> "error", content_type |-> None, length |-> [kind |-> "absent", n |-> 0],
     body |-> 0, stream |-> "end", open_error |-> FALSE]

OkResponses ==
    [status : {"ok"}, content_type : ContentTypeHeaders, length : Lengths,
     body : 0..MaxBody, stream : {"end", "broken"}, open_error : {FALSE}]
    \cup [status : {"ok"}, content_type : ContentTypeHeaders, length : Lengths,
          body : {0}, stream : {"end"}, open_error : {TRUE}]

Responses == {NoResponse} \cup OkResponses

\* a path written with so many bytes
Written(fs, path, size) ==
    [p \in DOMAIN fs \cup {path} |-> IF p = path THEN size ELSE fs[p]]

\* download_image(img_url, fname, obs_id_str) on response resp, with the image
\* directory holding fs: the value returned, the directory afterwards, whether a
\* request was issued, and the branch taken
download_image(img_url, fname, obs_id_str, resp, fs) ==
    LET content_type == NormalizeContentType(resp.content_type)
        e == ExtensionFor(content_type, SplitExt(fname).ext)
        out_path == OutPath(obs_id_str, fname, e.ext)
        content_size == ContentSize(resp.length)
        \* open(out_path, "wb") truncates; the chunks received are written
        after == Written(fs, out_path, resp.body)
    IN  IF img_url = <<>> \/ fname = <<>>
        THEN [ret |-> FALSE, files |-> fs, requested |-> FALSE, branch |-> "no_input"]
        ELSE IF resp.status = "error"
        THEN [ret |-> FALSE, files |-> fs, requested |-> TRUE, branch |-> "network"]
        ELSE IF ~e.ok
        THEN [ret |-> FALSE, files |-> fs, requested |-> TRUE, branch |-> "not_image"]
        ELSE IF resp.length.kind = "bad"
        THEN [ret |-> FALSE, files |-> fs, requested |-> TRUE, branch |-> "unexpected"]
        ELSE IF resp.open_error
        THEN [ret |-> FALSE, files |-> fs, requested |-> TRUE, branch |-> "io_error"]
        ELSE IF resp.stream = "broken"
        THEN [ret |-> FALSE, files |-> after, requested |-> TRUE, branch |-> "io_error"]
        ELSE IF after[out_path] > 0
        THEN [ret |-> TRUE, files |-> after, requested |-> TRUE, branch |-> "written"]
        ELSE IF after[out_path] = 0 /\ content_size = 0
        THEN [ret |-> TRUE, files |-> after, requested |-> TRUE, branch |-> "empty"]
        ELSE [ret |-> FALSE, files |-> after, requested |-> TRUE, branch |-> "size"]

\* the record of a call of download_image
DlRecord(img_url, fname, obs_id_str, resp, fs) ==
    LET r == download_image(img_url, fname, obs_id_str, resp, fs)
    IN  [called |-> TRUE, url |-> img_url, fname |-> fname, obs |-> obs_id_str,
         resp |-> resp, before |-> fs, ret |-> r.ret, branch |-> r.branch,
         requested |-> r.requested]

NoCall ==
    [called |-> FALSE, url |-> <<>>, fname |-> <<>>, obs |-> "", resp |-> NoResponse,
     before |-> <<>>, ret |-> FALSE, branch |-> "none", requested |-> FALSE]

DlIdle ==
    /\ files = <<>>
    /\ dl = NoCall

\* the arguments tried under SpecDownload
DownloadUrls == {<<>>, <<"https://static.inaturalist.org/photos/", "7", "/original.jpg">>}

DownloadNames == {<<>>, <<"a">>, <<"a", ".", "png">>, <<"a", ";", "b", ".", "JPG">>}

\* the image directories download_image is called on under SpecDownload: empty,
\* or holding a file of an earlier download
InitialDirs == {<<>>, Written(<<>>, OutPath("1", <<"a">>, <<".", "jpg">>), 1)}

\* one call of download_image
DownloadCall ==
    /\ pc = "download"
    /\ \E img_url \in DownloadUrls, fname \in DownloadNames, resp \in Responses :
         /\ dl' = DlRecord(img_url, fname, "1", resp, files)
         /\ files' = download_image(img_url, fname, "1", resp, files).files
    /\ pc' = "returned"
    /\ UNCHANGED <<cmdVars, exit_status, gateVars, listVars, mainVars>>

(***************************************************************************)
(* URLs, and the CSV's joined fields.                                      *)
(***************************************************************************)
INAT_PHOTO_PAGE_URL_BASE == <<"https://www.inaturalist.org", "/photos/">>

S3_PHOTO_URL_BASE == <<"https://inaturalist-open-data.s3.amazonaws.com", "/photos/">>

\* the candidates with .jpg ahead of .jpeg
S3_ATTEMPT_EXTENSIONS_JpgFirst == << <<".", "jpg">>, <<".", "jpeg">>, <<".", "png">>, <<".", "gif">> >>

\* line 99
S3_ATTEMPT_EXTENSIONS == << <<".", "jpeg">>, <<".", "jpg">>, <<".", "png">>, <<".", "gif">> >>

API_PHOTOS_PATH_SEGMENT == "/photos/"

\* f"{INAT_PHOTO_PAGE_URL_BASE}{photo_id}"
PhotoPageUrl(photo_id) == INAT_PHOTO_PAGE_URL_BASE \o <<photo_id>>

\* f"{S3_PHOTO_URL_BASE}{photo_id}/original{s3_ext}"
DirectS3Url(photo_id, s3_ext) == S3_PHOTO_URL_BASE \o <<photo_id, "/original">> \o s3_ext

\* scheme and host of the absolute URLs of the model
Origins ==
    {"https://www.inaturalist.org", "https://inaturalist-open-data.s3.amazonaws.com",
     "https://static.inaturalist.org"}

\* urljoin(base, href): an absolute href stands, a path replaces the base's
\* path, a query is put behind the base
UrlJoin(base, href) ==
    IF href = <<>> THEN base
    ELSE IF href[1] \in Origins THEN href
    ELSE IF href[1] = "?size=original" THEN base \o href
    ELSE <<base[1]>> \o href

\* sep.join(list)
RECURSIVE Join(_, _)
Join(list, sep) ==
    IF list = <<>> THEN <<>>
    ELSE IF Len(list) = 1 THEN list[1]
    ELSE list[1] \o <<sep>> \o Join(Tail(list), sep)

\* field.split(sep): the entries of a joined field
RECURSIVE Split(_, _)
Split(field, sep) ==
    IF \A k \in 1..Len(field) : field[k] # sep THEN <<field>>
    ELSE LET at == CHOOSE k \in 1..Len(field) :
                       field[k] = sep /\ \A m \in 1..(k - 1) : field[m] # sep
         IN  <<SubSeq(field, 1, at - 1)>> \o Split(SubSeq(field, at + 1, Len(field)), sep)

(***************************************************************************)
(* get_photo_ids.                                                          *)
(***************************************************************************)
\* the id of the k-th photo object of an observation
PhotoId(k) == ToString(70 + k)

\* results[0].photos: up to MaxPhotos photo objects; the last may lack an id
ApiPhotoLists ==
    UNION { { [k \in 1..n |-> IF k < n \/ has THEN Some(PhotoId(k)) ELSE None] :
              has \in BOOLEAN } : n \in 0..MaxPhotos }

\* lines 230-245: one record per photo object that carries an id
RECURSIVE PhotoDetails(_)
PhotoDetails(photos) ==
    IF photos = <<>> THEN <<>>
    ELSE IF Head(photos) = None THEN PhotoDetails(Tail(photos))
    ELSE <<[id |-> Value(Head(photos)), photo_page_url |-> PhotoPageUrl(Value(Head(photos)))]>>
         \o PhotoDetails(Tail(photos))

\* what the detail request can come to; as in get_observation_ids, a
\* json.JSONDecodeError meets "except json.JSONDecodeError" with json not imported
DetailOutcomes == {"ok", "no_results", "network_error", "decode_error_requests", "decode_error_json"}

(***************************************************************************)
(* scrape_photo_page.                                                      *)
(***************************************************************************)
\* the filenames found on photo pages; <<>> is none found
ScrapedNames == {<<>>, <<"a">>, <<"a", ";", "b">>}

\* the href of the first anchor with text "original" and "size=original" in its
\* href, if there is one
OriginalHrefs(photo_id) ==
    {None, Some(<<"/photos/", photo_id, "?size=original">>),
     Some(<<"https://static.inaturalist.org", "/view", "?size=original">>)}

\* a photo page as the scraper reads it: the cell of the "Filename" row, the
\* data-original-filename attribute, the matching anchor
PhotoPages(photo_id) ==
    [table_filename : ScrapedNames, attr_filename : {<<>>, <<"a">>},
     original_href : OriginalHrefs(photo_id)]

\* lines 263-280: the table row first, the data attribute if that gave nothing
ScrapedFilename(photo_page) ==
    IF photo_page.table_filename # <<>> THEN photo_page.table_filename
    ELSE photo_page.attr_filename

\* lines 282-299: the matching anchor's href, made absolute
ScrapedOriginalLink(photo_page, url) ==
    IF photo_page.original_href = None THEN None
    ELSE Some(UrlJoin(url, Value(photo_page.original_href)))

\* scrape_photo_page(photo_id): (filename, original_size_url), ("", None) when
\* the request fails
ScrapeResults(photo_id) ==
    {[failed |-> TRUE, filename |-> <<>>, link |-> None]}
    \cup { [failed |-> FALSE, filename |-> ScrapedFilename(pg),
            link |-> ScrapedOriginalLink(pg, PhotoPageUrl(photo_id))] :
           pg \in PhotoPages(photo_id) }

(***************************************************************************)
(* get_actual_image_url.                                                   *)
(***************************************************************************)
\* the pieces made of digits
DigitPieces == { PhotoId(k) : k \in 1..(MaxPhotos + 1) }

\* re.search(r'/photos/(\d+)', link): the digits behind the first "/photos/"
PhotoIdInLink(link) ==
    LET hits == { k \in 1..(Len(link) - 1) :
                    link[k] = API_PHOTOS_PATH_SEGMENT /\ link[k + 1] \in DigitPieces }
    IN  IF hits = {} THEN None
        ELSE Some(link[CHOOSE k \in hits : \A m \in hits : k <= m])

\* HTML_A_TAG_ORIGINAL_TEXT in src.lower()
ContainsOriginal(src) == \E k \in 1..Len(src) : src[k] \in {"/original", "/original.jpg"}

\* an original-size page as the resolver reads it: the src of img#photo, the src
\* of every img in document order, and whether parsing raises
OriginalPages(photo_id) ==
    [photo_img_src : {None, Some(DirectS3Url(photo_id, <<".", "jpg">>))},
     img_srcs : { <<>>,
                  << <<"https://static.inaturalist.org", "/photos/", photo_id, "/thumb.jpg">>,
                     <<"https://static.inaturalist.org", "/photos/", photo_id, "/original.jpg">> >> },
     parse_error : BOOLEAN]

\* lines 329-374: img#photo, else the first img with "original" in its src, else
\* the guessed storage URL with the first attempt extension, else None
ResolveImageUrl(link, original_page) ==
    LET withOriginal == { k \in 1..Len(original_page.img_srcs) :
                            ContainsOriginal(original_page.img_srcs[k]) }
        first == CHOOSE k \in withOriginal : \A m \in withOriginal : k <= m
    IN  IF original_page.parse_error THEN None
        ELSE IF original_page.photo_img_src # None
        THEN Some(UrlJoin(link, Value(original_page.photo_img_src)))
        ELSE IF withOriginal # {}
        THEN Some(UrlJoin(link, original_page.img_srcs[first]))
        ELSE IF (\E k \in 1..Len(link) : link[k] = API_PHOTOS_PATH_SEGMENT)
                /\ PhotoIdInLink(link) # None
        THEN Some(DirectS3Url(Value(PhotoIdInLink(link)), S3_ATTEMPT_EXTENSIONS[1]))
        ELSE None

\* get_actual_image_url(link): the URL or None, None too when the request fails
ResolveResults(link, photo_id) ==
    {[failed |-> TRUE, url |-> None]}
    \cup { [failed |-> FALSE, url |-> ResolveImageUrl(link, pg)] : pg \in OriginalPages(photo_id) }

(***************************************************************************)
(* The main run, lines 499-593.                                            *)
(***************************************************************************)
NoPhoto ==
    [id |-> "", filename |-> <<>>, link |-> None, url |-> None, primary |-> "none",
     direct_called |-> FALSE, attempts |-> <<>>, state |-> "none",
     count_before |-> 0, loss_logged |-> FALSE, failed_urls |-> {}, retried |-> FALSE]

ObservationIdle ==
    /\ photo_details_list = <<>>
    /\ j = 0
    /\ observation_filenames = <<>>
    /\ observation_photo_page_urls = <<>>
    /\ observation_original_image_links = <<>>
    /\ ph = NoPhoto
    /\ truth = <<>>

MainIdle ==
    /\ ObservationIdle
    /\ obs_ids_list = <<>>
    /\ i = 0
    /\ rows = <<>>
    /\ total_photos_processed = 0
    /\ successfully_downloaded_photos = 0
    /\ expected = <<>>
    /\ visited = <<>>
    /\ skipped = {}

\* the responses to image requests tried under Spec: no usable response, or a
\* JPEG of one byte (SpecDownload tries every response)
RunResponses ==
    { NoResponse,
      [status |-> "ok", content_type |-> Some(<<"image/", "jpeg">>),
       length |-> [kind |-> "int", n |-> 1], body |-> 1, stream |-> "end",
       open_error |-> FALSE] }

\* lines 502-514: the ids are kept, the CSV is opened and its header written
OpenCsv ==
    /\ pc = "listed"
    /\ obs_ids_list' = ids
    /\ i' = 1
    /\ rows' = <<>>
    /\ total_photos_processed' = 0
    /\ successfully_downloaded_photos' = 0
    /\ pc' = "obs"
    \* the locals of get_observation_ids are gone
    /\ page' = 0
    /\ ids' = <<>>
    /\ pages_requested' = <<>>
    /\ UNCHANGED <<cmdVars, exit_status, gateVars, api_pages, list_end, dlVars, obsVars, expected,
                   visited, skipped>>

\* the locals of one turn of the observation loop, before and after it
NextObservation ==
    /\ i' = i + 1
    /\ pc' = "obs"
    /\ photo_details_list' = <<>>
    /\ j' = 0
    /\ observation_filenames' = <<>>
    /\ observation_photo_page_urls' = <<>>
    /\ observation_original_image_links' = <<>>
    /\ ph' = NoPhoto
    /\ truth' = <<>>

\* a handler that writes a row for the observation it leaves
SkipObservationWritesRow ==
    /\ NextObservation
    /\ skipped' = skipped \cup {obs_ids_list[i]}
    /\ rows' = Append(rows, [observation_id |-> ToString(obs_ids_list[i]),
                             photo_filenames |-> Join(observation_filenames, ";"),
                             photo_urls |-> None, original_photo_urls |-> None])
    /\ UNCHANGED expected

\* lines 576-582: an exception raised while observation i is processed is
\* logged and the loop continues with the next observation
SkipObservation ==
    /\ NextObservation
    /\ skipped' = skipped \cup {obs_ids_list[i]}
    /\ UNCHANGED <<rows, expected>>

\* lines 516-527: the next observation, and get_photo_ids for it
EnumeratePhotos ==
    /\ pc = "obs"
    /\ i <= Len(obs_ids_list)
    /\ \E outcome \in DetailOutcomes, photos \in ApiPhotoLists :
         IF outcome = "decode_error_json"
         THEN \* NameError leaves get_photo_ids and is caught at line 579
              SkipObservation
         ELSE /\ photo_details_list' = IF outcome = "ok" THEN PhotoDetails(photos) ELSE <<>>
              /\ j' = 1
              /\ pc' = "photo"
              /\ UNCHANGED <<i, rows, expected, skipped, observation_filenames,
                             observation_photo_page_urls,
                             observation_original_image_links, ph, truth>>
    /\ visited' = Append(visited, obs_ids_list[i])
    /\ UNCHANGED <<cmdVars, exit_status, gateVars, listVars, dlVars, obs_ids_list,
                   total_photos_processed, successfully_downloaded_photos>>

\* str(current_obs_id_int)
current_obs_id_str == ToString(obs_ids_list[i])

\* the photo in work once it is scraped
Scraped(photo_id, res) ==
    [NoPhoto EXCEPT !.id = photo_id, !.filename = res.filename, !.link = res.link,
                    !.count_before = successfully_downloaded_photos,
                    !.failed_urls = IF res.failed THEN {PhotoPageUrl(photo_id)} ELSE {}]

\* lines 529-546: scrape the photo's page, collect its filename and URLs, and
\* start the download if one is asked for
ScrapePhoto ==
    /\ pc = "photo"
    /\ j <= Len(photo_details_list)
    /\ LET photo_data == photo_details_list[j]
       IN \E res \in ScrapeResults(photo_data.id) :
            /\ truth' = Append(truth, [filename |-> res.filename,
                                       photo_page_url |-> photo_data.photo_page_url,
                                       link |-> res.link])
            /\ IF res.filename # <<>>
               THEN /\ observation_filenames' = Append(observation_filenames, res.filename)
                    /\ IF args.add_photo_urls
                       THEN /\ observation_photo_page_urls' =
                                 Append(observation_photo_page_urls, photo_data.photo_page_url)
                            /\ observation_original_image_links' =
                                 Append(observation_original_image_links,
                                        IF res.link # None THEN Value(res.link) ELSE <<>>)
                       ELSE UNCHANGED <<observation_photo_page_urls,
                                        observation_original_image_links>>
                    /\ total_photos_processed' = total_photos_processed + 1
                    /\ IF args.download
                       THEN IF res.link # None
                            THEN /\ ph' = [Scraped(photo_data.id, res) EXCEPT !.state = "Pending"]
                                 /\ pc' = "resolve"
                                 /\ j' = j
                            ELSE /\ ph' = [Scraped(photo_data.id, res) EXCEPT
                                             !.state = "Pending", !.primary = "no_link",
                                             !.direct_called = TRUE]
                                 /\ pc' = "direct"
                                 /\ j' = j
                       ELSE /\ ph' = Scraped(photo_data.id, res)
                            /\ pc' = "photo"
                            /\ j' = j + 1
               ELSE /\ ph' = Scraped(photo_data.id, res)
                    /\ pc' = "photo"
                    /\ j' = j + 1
                    /\ UNCHANGED <<observation_filenames, observation_photo_page_urls,
                                   observation_original_image_links, total_photos_processed>>
    /\ UNCHANGED <<cmdVars, exit_status, gateVars, listVars, dlVars, photo_details_list,
                   obs_ids_list, i, rows, successfully_downloaded_photos, expected,
                   visited, skipped>>

\* line 260: the parser rejects the page of photo j (bs4 raises
\* ParserRejectedMarkup), which is no RequestException: scrape_photo_page is
\* left, and the handler at line 579 takes over
ScrapeRaises ==
    /\ pc = "photo"
    /\ j <= Len(photo_details_list)
    /\ SkipObservation
    /\ UNCHANGED <<cmdVars, exit_status, gateVars, listVars, dlVars, obs_ids_list,
                   total_photos_processed, successfully_downloaded_photos, visited>>

\* a request to url joins the photo's history: a second request to a URL whose
\* request failed is a retry
Requested(photo, url, failed) ==
    [photo EXCEPT !.retried = photo.retried \/ url \in photo.failed_urls,
                  !.failed_urls = IF failed THEN photo.failed_urls \cup {url}
                                  ELSE photo.failed_urls]

\* lines 546-548: get_actual_image_url for the scraped link
ResolveOriginal ==
    /\ pc = "resolve"
    /\ \E res \in ResolveResults(Value(ph.link), ph.id) :
         LET asked == Requested(ph, Value(ph.link), res.failed)
         IN  IF res.url # None
             THEN /\ ph' = [asked EXCEPT !.url = res.url]
                  /\ pc' = "primary"
             ELSE \* line 551: nothing downloaded, on to the direct fallback
                  /\ ph' = [asked EXCEPT !.primary = "no_url", !.direct_called = TRUE]
                  /\ pc' = "direct"
    /\ UNCHANGED <<cmdVars, exit_status, gateVars, listVars, dlVars, photo_details_list, j,
                   observation_filenames, observation_photo_page_urls,
                   observation_original_image_links, truth, runVars>>

\* every photo is counted as downloaded, none is logged as lost
PhotoDoneAlwaysCounted(photo, succeeded) ==
    /\ ph' = [photo EXCEPT !.state = "Resolved", !.loss_logged = FALSE]
    /\ successfully_downloaded_photos' = successfully_downloaded_photos + 1
    /\ j' = j + 1
    /\ pc' = "photo"

\* lines 555-558: the photo is counted as downloaded, or logged as lost
PhotoDone(photo, succeeded) ==
    /\ ph' = [photo EXCEPT !.state = IF succeeded THEN "Resolved" ELSE "Exhausted",
                           !.loss_logged = ~succeeded]
    /\ successfully_downloaded_photos' =
         IF succeeded THEN successfully_downloaded_photos + 1
         ELSE successfully_downloaded_photos
    /\ j' = j + 1
    /\ pc' = "photo"

\* line 549: download_image for the resolved URL
PrimaryDownload ==
    /\ pc = "primary"
    /\ \E resp \in RunResponses :
         LET r == download_image(Value(ph.url), ph.filename, current_obs_id_str, resp, files)
             asked == Requested(ph, Value(ph.url), resp.status = "error")
         IN  /\ files' = r.files
             /\ IF r.ret
                THEN PhotoDone([asked EXCEPT !.primary = "ok"], TRUE)
                ELSE /\ ph' = [asked EXCEPT !.primary = "failed", !.direct_called = TRUE]
                     /\ pc' = "direct"
                     /\ UNCHANGED <<j, successfully_downloaded_photos>>
    /\ UNCHANGED <<cmdVars, exit_status, gateVars, listVars, dl, photo_details_list,
                   observation_filenames, observation_photo_page_urls,
                   observation_original_image_links, truth, obs_ids_list, i, rows,
                   total_photos_processed, expected, visited, skipped>>

\* lines 483-496: one turn of the loop of direct_download_by_photo_id, and its
\* return to line 553 when the turn is the last
DirectAttemptOn(responses) ==
    /\ pc = "direct"
    /\ LET k == Len(ph.attempts) + 1
           s3_ext == S3_ATTEMPT_EXTENSIONS[k]
           direct_s3_url == DirectS3Url(ph.id, s3_ext)
       IN \E resp \in responses :
            LET r == download_image(direct_s3_url, ph.filename, current_obs_id_str, resp, files)
                asked == [Requested(ph, direct_s3_url, resp.status = "error") EXCEPT
                            !.attempts = Append(ph.attempts, [ext |-> s3_ext, status |-> resp.status,
                                                       ok |-> r.ret])]
            IN  /\ files' = r.files
                /\ IF r.ret
                   THEN PhotoDone(asked, TRUE)
                   ELSE IF k = Len(S3_ATTEMPT_EXTENSIONS)
                   THEN PhotoDone(asked, FALSE)
                   ELSE /\ ph' = asked
                        /\ UNCHANGED <<pc, j, successfully_downloaded_photos>>
    /\ UNCHANGED <<cmdVars, exit_status, gateVars, listVars, dl, photo_details_list,
                   observation_filenames, observation_photo_page_urls,
                   observation_original_image_links, truth, obs_ids_list, i, rows,
                   total_photos_processed, expected, visited, skipped>>

\* the direct fallback within a run
DirectAttempt == DirectAttemptOn(RunResponses)

\* what the storage backend answers to a candidate when the fallback is taken
\* alone: 404, or 200 with a GIF, a JPEG, an untyped body, a page of HTML, or a
\* GIF whose connection breaks
DirectResponses ==
    { NoResponse }
    \cup { [status |-> "ok", content_type |-> ct, length |-> [kind |-> "int", n |-> 1],
            body |-> 1, stream |-> "end", open_error |-> FALSE] :
           ct \in { Some(<<"image/", "gif">>), Some(<<"image/", "jpeg">>),
                    Some(<<"application/", "octet-stream">>),
                    Some(<<"text/", "html", ";", " ", "charset=utf-8">>) } }
    \cup { [status |-> "ok", content_type |-> Some(<<"image/", "gif">>),
            length |-> [kind |-> "int", n |-> 2], body |-> 1, stream |-> "broken",
            open_error |-> FALSE] }

\* the direct fallback against that backend
DirectAttemptAny == DirectAttemptOn(DirectResponses)

\* what the scraper found for the photos of an observation that gave a filename
RECURSIVE WithFilename(_)
WithFilename(found) ==
    IF found = <<>> THEN <<>>
    ELSE IF Head(found).filename = <<>> THEN WithFilename(Tail(found))
    ELSE <<Head(found)>> \o WithFilename(Tail(found))

\* what the row of an observation has to hold, from what the scraper found: the
\* filenames, and with --add-photo-urls each photo's page URL and original link
ExpectedRow(found) ==
    [observation_id |-> current_obs_id_str,
     filenames |-> [k \in 1..Len(found) |-> found[k].filename],
     photos |-> IF args.add_photo_urls
                THEN [k \in 1..Len(found) |->
                        [photo_page_url |-> found[k].photo_page_url, link |-> found[k].link]]
                ELSE <<>>]

\* lines 564-571: the row of the observation
RowData ==
    [observation_id |-> current_obs_id_str,
     photo_filenames |-> Join(observation_filenames, ";"),
     photo_urls |-> IF args.add_photo_urls
                    THEN Some(Join(observation_photo_page_urls, ";")) ELSE None,
     original_photo_urls |-> IF args.add_photo_urls
                             THEN Some(Join(observation_original_image_links, ";")) ELSE None]

\* lines 584-586: a KeyboardInterrupt raised in the step the program is at.
\* Inside the try of get_observation_ids (lines 188-191) or of get_photo_ids
\* (lines 216-219) it is no RequestException, so "except json.JSONDecodeError"
\* is evaluated next and raises NameError in its place: from the lister that
\* reaches the top-level "except Exception" (status 1), from get_photo_ids the
\* handler at line 579, and the run goes on.  Anywhere else it reaches
\* "except KeyboardInterrupt": status 130.
Interrupt ==
    /\ pc \in {"list", "photo", "resolve", "primary", "direct"}
       \/ (pc = "obs" /\ i <= Len(obs_ids_list))
    /\ ~interrupted
    /\ interrupted' = TRUE
    /\ \E inside_try \in BOOLEAN :
         IF pc = "list" /\ inside_try
         THEN /\ pc' = "exit"
              /\ exit_status' = "1"
              /\ list_end' = "raised"
              /\ UNCHANGED <<api_pages, page, ids, pages_requested, mainVars>>
         ELSE IF pc = "obs" /\ inside_try
         THEN /\ SkipObservation
              /\ visited' = Append(visited, obs_ids_list[i])
              /\ UNCHANGED <<exit_status, listVars, obs_ids_list, total_photos_processed,
                             successfully_downloaded_photos>>
         ELSE /\ pc' = "exit"
              /\ exit_status' = "130"
              /\ UNCHANGED <<listVars, mainVars>>
    /\ UNCHANGED <<args, argv, stderr, gateVars, dlVars>>

\* lines 560-574: after the last photo, the row is written, or skipped when no
\* filename was scraped
EndObservation ==
    /\ pc = "photo"
    /\ j > Len(photo_details_list)
    /\ rows' = IF observation_filenames = <<>> THEN rows ELSE Append(rows, RowData)
    /\ expected' = IF WithFilename(truth) = <<>> THEN expected
                   ELSE Append(expected, ExpectedRow(WithFilename(truth)))
    /\ NextObservation
    /\ UNCHANGED <<cmdVars, exit_status, gateVars, listVars, dlVars, obs_ids_list,
                   total_photos_processed, successfully_downloaded_photos, visited, skipped>>

\* lines 592-593: the loop is over, the script ends with status 0
Finish ==
    /\ pc = "obs"
    /\ i > Len(obs_ids_list)
    /\ pc' = "exit"
    /\ exit_status' = "0"
    /\ UNCHANGED <<cmdVars, gateVars, listVars, dlVars, mainVars>>

(***************************************************************************)
(* Claims about the rate gate (SpecGate).                                  *)
(***************************************************************************)
\* C3: every request the session sends has passed the gate, two consecutive
\* recorded permit timestamps are at least the minimum interval apart whatever
\* the requests are for, and n consecutive requests span at least n-1 intervals.
C3_RateGateSpacing ==
    /\ Len(permits) = sent.n
    /\ \A k \in 1..(Len(permits) - 1) : permits[k + 1] - permits[k] >= MinInterval
    /\ Len(permits) >= 1 =>
         permits[Len(permits)] - permits[1] >= (Len(permits) - 1) * MinInterval

\* five requests were permitted, the last after a sleep of exactly the delay
C3_Witness ==
    /\ Len(permits) = 5
    /\ sent.kind = "direct"
    /\ permits[5] - permits[4] = MinInterval
    /\ permits[5] - permits[1] >= 4 * MinInterval

(***************************************************************************)
(* Claims about get_observation_ids (SpecList).                            *)
(***************************************************************************)
\* the ids the API holds, in API order
AllIds == Concat(api_pages)

\* C1 as claimed: when no request fails, the ids returned are the first
\* min(total_available, limit) ids of the concatenated pages, for every limit
\* from 0 up, and all of them without a limit.
C1_ReturnsMinOfTotalAndLimit ==
    list_end \in {"limit", "empty"} =>
        ids = Take(AllIds, IF args.limit = None THEN Len(AllIds)
                           ELSE Min(Len(AllIds), Value(args.limit)))

C14_ValidationFailsWithItsMessage ==
    (pc # "start" /\ ~ValidArgv(argv)) =>
        /\ pc = "exit"
        /\ exit_status \notin {"running", "0"}
        /\ pages_requested = <<>>
        /\ sent.n = 0
        /\ stderr = IF ~argv.username THEN "Error: --username is required."
                    ELSE "Error: Output filename must end with .csv"

(***************************************************************************)
(* Claims about download_image (SpecDownload).                             *)
(***************************************************************************)
\* the declared type is in the MIME table or starts with image/
RecognizedImageType(ct) == MIME_TYPE_MAP(ct) # None \/ StartsWithImage(ct)

\* the call ended with a response whose declared type is no image type and not
\* application/octet-stream
DeclaredNonImage ==
    /\ dl.called
    /\ dl.requested
    /\ dl.resp.status = "ok"
    /\ ~RecognizedImageType(NormalizeContentType(dl.resp.content_type))
    /\ NormalizeContentType(dl.resp.content_type) # <<"application/", "octet-stream">>

\* the fetch was rejected as not-an-image and the directory is as it was
RejectedUntouched ==
    /\ dl.ret = FALSE
    /\ dl.branch = "not_image"
    /\ files = dl.before

\* C9 as claimed: every response whose declared type is neither an image type nor
\* application/octet-stream is rejected, an absent or empty content type included.
C9_RejectsEveryNonImage == DeclaredNonImage => RejectedUntouched

\* C9 as amended: a response whose declared type is not empty and is neither an
\* image type nor application/octet-stream is rejected as not-an-image; nothing
\* is created or modified in the image directory.
C9_RejectsDeclaredNonImage ==
    (DeclaredNonImage /\ NormalizeContentType(dl.resp.content_type) # <<>>)
        => RejectedUntouched

\* a text/html response was rejected while the directory held an earlier file
C9_Witness ==
    /\ DeclaredNonImage
    /\ NormalizeContentType(dl.resp.content_type) = <<"text/", "html">>
    /\ dl.branch = "not_image"
    /\ dl.before # <<>>
    /\ files = dl.before

\* the path the last call writes to
DlOutPath ==
    OutPath(dl.obs, dl.fname,
            ExtensionFor(NormalizeContentType(dl.resp.content_type),
                         SplitExt(dl.fname).ext).ext)

\* C10 as claimed: download_image returns true only if the output file exists
\* and has a size above zero, or has size zero and the response declared a
\* Content-Length of zero.
C10_TrueOnlyIfFileOrDeclaredEmpty ==
    (dl.called /\ dl.ret) =>
        /\ DlOutPath \in DOMAIN files
        /\ \/ files[DlOutPath] > 0
           \/ /\ files[DlOutPath] = 0
              /\ dl.resp.length.kind = "int"
              /\ dl.resp.length.n = 0

\* C17 as claimed: whenever download_image returns false, the image directory
\* holds the same files with the same contents as before the call.
C17_FailedDownloadLeavesDirUnchanged ==
    (dl.called /\ ~dl.ret) => files = dl.before

(***************************************************************************)
(* Claims about the listing within a run (SpecCsv).                        *)
(***************************************************************************)
\* C2 as claimed: when the request for page k fails, by a network failure or by
\* a body that is not JSON, get_observation_ids returns exactly the ids of pages
\* 1..k-1 and the run never ends through the top-level fatal handler.
C2_ListFailureIsPartialNotFatal ==
    list_end \in {"failed", "raised"} =>
        /\ exit_status # "1"
        /\ pc = "listed" => ids = Concat(Take(api_pages, page - 1))

(***************************************************************************)
(* Claims about the per-photo pipeline (Spec).                             *)
(***************************************************************************)
\* the candidate extensions in the order claimed
ClaimedOrder == << <<".", "jpeg">>, <<".", "jpg">>, <<".", "png">>, <<".", "gif">> >>

\* direct_download_by_photo_id has returned for the photo in work
DirectReturned == ph.direct_called /\ ph.state \in {"Resolved", "Exhausted"}

\* C4: direct_download_by_photo_id tries .jpeg, .jpg, .png, .gif in this order,
\* one download each; no candidate is tried after one succeeded; it returns
\* true at the first success, and false if and only if all four were tried and
\* every one failed.
C4_DirectOrderAndFirstSuccess ==
    LET n == Len(ph.attempts)
    IN  /\ n <= 4
        /\ \A k \in 1..n : ph.attempts[k].ext = ClaimedOrder[k]
        /\ \A k \in 1..(n - 1) : ~ph.attempts[k].ok
        /\ pc = "direct" => \A k \in 1..n : ~ph.attempts[k].ok
        /\ DirectReturned =>
              /\ n >= 1
              /\ ph.state = "Resolved" <=> ph.attempts[n].ok
              /\ ph.state = "Exhausted" <=> (n = 4 /\ \A k \in 1..4 : ~ph.attempts[k].ok)

\* the fallback returned true at its third candidate, .png
C4_Witness ==
    /\ DirectReturned
    /\ ph.state = "Resolved"
    /\ Len(ph.attempts) = 3
    /\ ph.attempts[3] = [ext |-> <<".", "png">>, status |-> "ok", ok |-> TRUE]

\* C5: with --download, for a photo with a filename the direct fallback is
\* invoked if and only if the primary path gave no file (no link scraped, no URL
\* resolved, or the primary download returned false) and never after a primary
\* success; the photo ends Resolved and counted when the primary path or the
\* fallback returned true, Exhausted and logged as lost when both failed.
C5_FallbackIffPrimaryGaveNoFile ==
    /\ ph.direct_called <=> ph.primary \in {"no_link", "no_url", "failed"}
    /\ ph.attempts # <<>> => ph.direct_called
    /\ ph.primary = "ok" => ph.attempts = <<>>
    /\ pc \in {"resolve", "primary", "direct"} => ph.state = "Pending"
    /\ (pc = "photo" /\ ph.filename # <<>>) =>
          /\ ph.state \in {"Resolved", "Exhausted"}
          /\ ph.state = "Resolved" <=>
                \/ ph.primary = "ok"
                \/ ph.attempts # <<>> /\ ph.attempts[Len(ph.attempts)].ok
          /\ ph.state = "Resolved" =>
                /\ successfully_downloaded_photos = ph.count_before + 1
                /\ ~ph.loss_logged
          /\ ph.state = "Exhausted" =>
                /\ successfully_downloaded_photos = ph.count_before
                /\ ph.loss_logged

\* the primary download returned false and the fallback then exhausted its
\* candidates: the photo is logged as lost
C5_Witness ==
    /\ pc = "photo"
    /\ ph.primary = "failed"
    /\ ph.direct_called
    /\ ph.state = "Exhausted"
    /\ ph.loss_logged
    /\ Len(ph.attempts) = 4

\* C6 as claimed: within the processing of one photo, no URL whose request
\* failed is requested a second time.
C6_NoFailedUrlRequestedTwice == ~ph.retried

\* the extension of a path of the image directory
PathExt(path) == SplitExt(path).ext

\* C12 as claimed: when the backend answers 404 for the candidates before some
\* candidate and 200 for that one, direct_download_by_photo_id returns true and
\* exactly one file is written by the call; when that candidate is the fourth,
\* .gif, the file written has the extension .gif.
C12_First200CandidateGivesOneFile ==
    LET n == Len(ph.attempts)
    IN  (/\ n >= 1
         /\ \A k \in 1..(n - 1) : ph.attempts[k].status = "error"
         /\ ph.attempts[n].status = "ok")
        => /\ DirectReturned
           /\ ph.state = "Resolved"
           /\ Cardinality(DOMAIN files) = 1
           /\ n = 4 => \A path \in DOMAIN files : PathExt(path) = <<".", "gif">>

\* C13: when an exception other than a user interrupt leaves the processing of
\* an observation, no row is written for that observation, the observations are
\* still taken once each in list order, all of them by the end of the run, and
\* the run does not end through the top-level fatal handler.
C13_ExceptionSkipsOneObservation ==
    /\ \A o \in skipped : \A k \in 1..Len(rows) : rows[k].observation_id # ToString(o)
    /\ visited = Take(obs_ids_list, Len(visited))
    /\ skipped # {} => exit_status # "1"
    /\ (pc = "exit" /\ exit_status = "0") => visited = obs_ids_list

\* the first observation was left through the handler after one of its photos
\* had been downloaded, the second gave its row, and the run ended normally
C13_Witness ==
    /\ pc = "exit"
    /\ exit_status = "0"
    /\ ~interrupted
    /\ skipped = {1}
    /\ visited = <<1, 2>>
    /\ DOMAIN files # {}
    /\ \A path \in DOMAIN files : path[1] = "1"
    /\ Len(rows) = 1
    /\ rows[1].observation_id = "2"

\* C15 as claimed: once a user interrupt is raised, at any point of the run, the
\* run is over with status 130: no handler swallows it and nothing follows.
C15_InterruptExits130 ==
    interrupted => (pc = "exit" /\ exit_status = "130")

\* C11 as claimed: the number of distinct files the run left in the image
\* directory equals the number of photos counted as downloaded, so no two
\* downloaded photos share an output path.  (Under Spec a file is written only
\* by a download that is counted.)
C11_OneFilePerDownloadedPhoto ==
    Cardinality(DOMAIN files) = successfully_downloaded_photos

(***************************************************************************)
(* Claims about the CSV (SpecCsv).                                         *)
(***************************************************************************)
\* the entries of a semicolon-joined field
Entries(field) == Split(field, ";")

\* C7 as claimed: at the end of a run the CSV holds one row for every listed
\* observation with at least one non-empty filename and none for the others, in
\* list order, and the entries of photo_filenames are exactly the non-empty
\* filenames of the observation's photos in photo order.
C7_RowPerObservationWithFilenames ==
    (pc = "exit" /\ exit_status = "0") =>
        /\ Len(rows) = Len(expected)
        /\ \A k \in 1..Len(rows) :
              /\ rows[k].observation_id = expected[k].observation_id
              /\ Entries(rows[k].photo_filenames) = expected[k].filenames

\* C8 as claimed: with --add-photo-urls the three fields of every row have the
\* same number of entries, and entry n of each is about the same photo: its
\* filename, its page URL, its scraped original link or the empty entry.
C8_FieldsPositionAligned ==
    args.add_photo_urls =>
        \A k \in 1..Len(rows) :
            LET names == Entries(rows[k].photo_filenames)
                pages == Entries(Value(rows[k].photo_urls))
                links == Entries(Value(rows[k].original_photo_urls))
                photos == expected[k].photos
            IN  /\ Len(names) = Len(pages)
                /\ Len(pages) = Len(links)
                /\ Len(names) = Len(photos)
                /\ \A n \in 1..Len(photos) :
                      /\ names[n] = expected[k].filenames[n]
                      /\ pages[n] = photos[n].photo_page_url
                      /\ links[n] = IF photos[n].link = None THEN <<>>
                                    ELSE Value(photos[n].link)

(***************************************************************************)
(* Initial states and specifications.                                      *)
(***************************************************************************)
NoArgs == [limit |-> None, download |-> FALSE, add_photo_urls |-> FALSE]

\* the command line has passed lines 70-92, and nothing has interrupted
Started ==
    /\ argv = [username |-> TRUE, output |-> None]
    /\ stderr = ""
    /\ interrupted = FALSE

ListIdle ==
    /\ api_pages = <<>>
    /\ page = 0
    /\ ids = <<>>
    /\ list_end = "none"
    /\ pages_requested = <<>>

GateIdle ==
    /\ now = MinInterval
    /\ last_request_time = 0
    /\ permits = <<>>
    /\ sent = [n |-> 0, kind |-> "none"]

InitGate ==
    /\ pc = "gate"
    /\ args = NoArgs
    /\ Started
    /\ exit_status = "running"
    /\ now \in MinInterval..(MinInterval + 1)
    /\ last_request_time = 0
    /\ permits = <<>>
    /\ sent = [n |-> 0, kind |-> "none"]
    /\ ListIdle
    /\ DlIdle
    /\ MainIdle

NextGate ==
    \/ Tick
    \/ RequestObservationList
    \/ RequestObservationDetail
    \/ RequestPhotoPage
    \/ RequestOriginalPage
    \/ RequestImage
    \/ RequestDirect

SpecGate == InitGate /\ [][NextGate]_vars

Limits == {None} \cup { Some(n) : n \in 0..MaxLimit }

InitList ==
    /\ pc = "list"
    /\ args \in [limit : Limits, download : {FALSE}, add_photo_urls : {FALSE}]
    /\ Started
    /\ exit_status = "running"
    /\ GateIdle
    /\ api_pages \in ApiPagesUpTo(MaxPages)
    /\ page = 1
    /\ ids = <<>>
    /\ list_end = "none"
    /\ pages_requested = <<>>
    /\ DlIdle
    /\ MainIdle

NextList == ListPage

SpecList == InitList /\ [][NextList]_vars

\* the lister is not stopped from outside: a turn that can be taken is taken
SpecListFair == SpecList /\ WF_vars(ListPage)

InitDownload ==
    /\ pc = "download"
    /\ args = [limit |-> None, download |-> TRUE, add_photo_urls |-> FALSE]
    /\ Started
    /\ exit_status = "running"
    /\ GateIdle
    /\ ListIdle
    /\ files \in InitialDirs
    /\ dl = NoCall
    /\ MainIdle

NextDownload == DownloadCall

SpecDownload == InitDownload /\ [][NextDownload]_vars

\* the script is started with any --username and --output
InitStart ==
    /\ pc = "start"
    /\ args = NoArgs
    /\ argv \in [username : BOOLEAN, output : OutputNames]
    /\ stderr = ""
    /\ interrupted = FALSE
    /\ exit_status = "running"
    /\ GateIdle
    /\ api_pages \in ApiPagesUpTo(MaxPages)
    /\ page = 1
    /\ ids = <<>>
    /\ list_end = "none"
    /\ pages_requested = <<>>
    /\ DlIdle
    /\ MainIdle

NextStart ==
    \/ Validate
    \/ ListPage

SpecStart == InitStart /\ [][NextStart]_vars

\* the list endpoint holds at most MaxObs observations
RunApiPages == { p \in ApiPagesUpTo(MaxPages) : Len(Concat(p)) <= MaxObs }

\* the start of a run with one of the given command lines
InitRun(argsSet) ==
    /\ pc = "list"
    /\ args \in argsSet
    /\ Started
    /\ exit_status = "running"
    /\ GateIdle
    /\ api_pages \in RunApiPages
    /\ page = 1
    /\ ids = <<>>
    /\ list_end = "none"
    /\ pages_requested = <<>>
    /\ DlIdle
    /\ MainIdle

\* the filenames direct_download_by_photo_id is called with when taken alone
DirectNames == {<<"a">>, <<"a", ".", "JPG">>}

\* direct_download_by_photo_id(71, filename, 1) on an empty image directory
InitDirect ==
    /\ pc = "direct"
    /\ args = [limit |-> None, download |-> TRUE, add_photo_urls |-> FALSE]
    /\ Started
    /\ exit_status = "running"
    /\ GateIdle
    /\ ListIdle
    /\ DlIdle
    /\ obs_ids_list = <<1>>
    /\ i = 1
    /\ photo_details_list = <<[id |-> PhotoId(1), photo_page_url |-> PhotoPageUrl(PhotoId(1))]>>
    /\ j = 1
    /\ \E fname \in DirectNames :
         ph = [NoPhoto EXCEPT !.id = PhotoId(1), !.filename = fname, !.state = "Pending",
                              !.primary = "no_link", !.direct_called = TRUE]
    /\ observation_filenames = <<>>
    /\ observation_photo_page_urls = <<>>
    /\ observation_original_image_links = <<>>
    /\ truth = <<>>
    /\ rows = <<>>
    /\ total_photos_processed = 0
    /\ successfully_downloaded_photos = 0
    /\ expected = <<>>
    /\ visited = <<1>>
    /\ skipped = {}

NextDirect == DirectAttemptAny

SpecDirect == InitDirect /\ [][NextDirect]_vars

\* runs with --download
Init == InitRun([limit : {None}, download : {TRUE}, add_photo_urls : {FALSE}])

\* runs without --download, with and without --add-photo-urls
InitCsv == InitRun([limit : {None}, download : {FALSE}, add_photo_urls : BOOLEAN])

NextCsv ==
    \/ ListPage
    \/ OpenCsv
    \/ EnumeratePhotos
    \/ ScrapePhoto
    \/ ScrapeRaises
    \/ EndObservation
    \/ Finish

SpecCsv == InitCsv /\ [][NextCsv]_vars

Next ==
    \/ ListPage
    \/ OpenCsv
    \/ EnumeratePhotos
    \/ ScrapePhoto
    \/ ResolveOriginal
    \/ PrimaryDownload
    \/ DirectAttempt
    \/ ScrapeRaises
    \/ Interrupt
    \/ EndObservation
    \/ Finish

Spec == Init /\ [][Next]_vars

====
